---- MODULE Spec2Model ----
(***************************************************************************)
(* A model of misskey-webp-proxy: the request pipeline of main.rs /        *)
(* handler.rs / client.rs, the transform algebra of processor.rs and the   *)
(* native libwebp adapter of webp.rs.  Native calls are steps whose        *)
(* outcome (success or failure status) is chosen nondeterministically;     *)
(* every native handle that is acquired is recorded in a ledger together   *)
(* with the number of teardown calls issued for it.                        *)
(***************************************************************************)
EXTENDS Integers, Sequences, FiniteSets, TLC

(***************************************************************************)
(* Bounds of the model.                                                    *)
(***************************************************************************)
\* the longest frame sequence a decoder hands to the pipeline
MaxFrames == 2
\* the number of concurrently served requests in the scheduler model
MaxRequests == 3

(***************************************************************************)
(* Program constants (processor.rs).                                       *)
(***************************************************************************)
EMOJI_HEIGHT == 128
AVATER_HEIGHT == 320
PREVIEW_HEIGHT == 200
PREVIEW_WIDTH == 200
BADGE_HEIGHT == 96
BADGE_WIDTH == 96
STATIC_HEIGHT == 422

(***************************************************************************)
(* u32 arithmetic.  TLC's integers are 32-bit signed, so a u32 product is  *)
(* computed in 16-bit limbs: a value v is <<hi, lo>> with v = hi*2^16+lo.  *)
(***************************************************************************)
Limb == 256 * 256

\* a * b as an unbounded pair <<hi, lo>> (hi may exceed one limb), for
\* a < 2^31 and b < 2^15
MulLimbs(a, b) ==
    LET ah == a \div Limb
        al == a % Limb
        low == al * b
    IN  <<ah * b + (low \div Limb), low % Limb>>

\* does the u32 product a * b overflow (Rust: panic with overflow checks,
\* wrap without)
MulOverflowsU32(a, b) == MulLimbs(a, b)[1] >= Limb

\* ((a * b) mod 2^32) / c, the value of `a * b / c` on u32 without overflow
\* checks; c < 2^15 and the quotient below 2^31
WrappingMulDivU32(a, b, c) ==
    LET p == MulLimbs(a, b)
        hi == p[1] % Limb
        lo == p[2]
        qh == hi \div c
        r == hi % c
    IN  qh * Limb + ((r * Limb + lo) \div c)

(***************************************************************************)
(* Text is a tuple of one-character strings.                               *)
(***************************************************************************)
Digits == <<"0", "1", "2", "3", "4", "5", "6", "7", "8", "9">>
IsDigit(c) == \E i \in 1..10 : Digits[i] = c
DigitVal(c) == (CHOOSE i \in 1..10 : Digits[i] = c) - 1

\* str::split(sep): the pieces of t between occurrences of sep
RECURSIVE SplitAcc(_, _, _)
SplitAcc(t, sep, cur) ==
    IF t = <<>> THEN <<cur>>
    ELSE IF Head(t) = sep THEN <<cur>> \o SplitAcc(Tail(t), sep, <<>>)
    ELSE SplitAcc(Tail(t), sep, Append(cur, Head(t)))

Split(t, sep) == SplitAcc(t, sep, <<>>)

\* one decimal octet of Ipv4Addr::from_str: 1..3 digits, no leading zero,
\* value at most 255
IsOctet(p) ==
    /\ Len(p) \in 1..3
    /\ \A i \in 1..Len(p) : IsDigit(p[i])
    /\ (Len(p) > 1 => p[1] # "0")
    /\ LET v == IF Len(p) = 1 THEN DigitVal(p[1])
                ELSE IF Len(p) = 2 THEN 10 * DigitVal(p[1]) + DigitVal(p[2])
                ELSE 100 * DigitVal(p[1]) + 10 * DigitVal(p[2]) + DigitVal(p[3])
       IN  v <= 255

\* IpAddr::from_str(s).is_ok() for host text (a registered-name host never
\* holds ':' so only the dotted-quad grammar can match)
ParsesAsIp(s) ==
    LET parts == Split(s, ".")
    IN  /\ Len(parts) = 4
        /\ \A i \in 1..4 : IsOctet(parts[i])

(***************************************************************************)
(* client.rs: classification by URL suffix and the address check.          *)
(***************************************************************************)
\* p.split('.').last(): the text after the last '.', the whole path when
\* there is none
LastSegment(p) ==
    LET parts == Split(p, ".")
    IN  parts[Len(parts)]

\* the mutant of get_image_ext: ico is taken for a known suffix
get_image_ext_IcoKnown(url) ==
    LET e == LastSegment(url.path)
    IN  IF e = <<"p", "n", "g">> THEN "Png"
        ELSE IF e \in {<<"j", "p", "g">>, <<"j", "p", "e", "g">>, <<"j", "f", "i", "f">>,
                       <<"p", "j", "p", "e", "g">>, <<"p", "j", "p">>} THEN "Jpeg"
        ELSE IF e = <<"g", "i", "f">> THEN "Gif"
        ELSE IF e = <<"s", "v", "g">> THEN "Svg"
        ELSE IF e = <<"w", "e", "b", "p">> THEN "Webp"
        ELSE IF e = <<"i", "c", "o">> THEN "Ico"
        ELSE "Unknown"

get_image_ext(url) ==
    LET e == LastSegment(url.path)
    IN  IF e = <<"p", "n", "g">> THEN "Png"
        ELSE IF e \in {<<"j", "p", "g">>, <<"j", "p", "e", "g">>, <<"j", "f", "i", "f">>,
                       <<"p", "j", "p", "e", "g">>, <<"p", "j", "p">>} THEN "Jpeg"
        ELSE IF e = <<"g", "i", "f">> THEN "Gif"
        ELSE IF e = <<"s", "v", "g">> THEN "Svg"
        ELSE IF e = <<"w", "e", "b", "p">> THEN "Webp"
        ELSE "Unknown"

\* the mutant of guess_format: every format without a decoder is tried as SVG
guess_format_SvgForAll(sniffed) ==
    IF sniffed = "Png" THEN "Png"
    ELSE IF sniffed = "Jpeg" THEN "Jpeg"
    ELSE IF sniffed = "Gif" THEN "Gif"
    ELSE IF sniffed = "WebP" THEN "Webp"
    ELSE IF sniffed = "Ico" THEN "Ico"
    ELSE "Svg"

\* image::guess_format(buf) reports a container format or fails ("None")
guess_format(sniffed) ==
    IF sniffed = "Png" THEN "Png"
    ELSE IF sniffed = "Jpeg" THEN "Jpeg"
    ELSE IF sniffed = "Gif" THEN "Gif"
    ELSE IF sniffed = "WebP" THEN "Webp"
    ELSE IF sniffed = "Ico" THEN "Ico"
    ELSE IF sniffed \in {"Pnm", "Tiff", "Tga", "Dds", "Bmp", "Hdr", "OpenExr",
                         "Farbfeld", "Avif", "Qoi"} THEN "Unknown"
    ELSE "Svg"

\* the mutant of is_private_like: a domain host is never looked at
is_private_like_DomainUnchecked(url) ==
    IF url.host.kind = "None" THEN TRUE
    ELSE IF url.host.kind = "Domain" THEN FALSE
    ELSE TRUE

is_private_like(url) ==
    IF url.host.kind = "None" THEN TRUE
    ELSE IF url.host.kind = "Domain" THEN ParsesAsIp(url.host.text)
    ELSE TRUE

(***************************************************************************)
(* The inputs of a request.                                                *)
(***************************************************************************)
OrdinaryHost == [kind |-> "Domain", text |-> <<"a", ".", "b">>]

Hosts ==
    { OrdinaryHost,
      [kind |-> "Domain", text |-> <<"1", ".", "2", ".", "3", ".", "4">>],
      [kind |-> "Domain", text |-> <<"2", "5", "5", ".", "0", ".", "0", ".", "1">>],
      [kind |-> "Domain", text |-> <<"2", "5", "6", ".", "0", ".", "0", ".", "1">>],
      [kind |-> "Domain", text |-> <<"1", ".", "2", ".", "3">>],
      [kind |-> "Ipv4", text |-> <<"1", "2", "7", ".", "0", ".", "0", ".", "1">>],
      [kind |-> "Ipv6", text |-> <<":", ":", "1">>],
      [kind |-> "None", text |-> <<>>] }

Paths ==
    { <<"/", "i", ".", "p", "n", "g">>,
      <<"/", "i", ".", "j", "p", "e", "g">>,
      <<"/", "i", ".", "g", "i", "f">>,
      <<"/", "i", ".", "s", "v", "g">>,
      <<"/", "i", ".", "w", "e", "b", "p">>,
      <<"/", "i", ".", "b", "m", "p">>,
      <<"/">> }

\* a host that is rejected is tried with one path only
Urls ==
    { [host |-> h, path |-> p] : h \in {OrdinaryHost}, p \in Paths }
      \cup { [host |-> h, path |-> <<"/", "i", ".", "p", "n", "g">>] : h \in Hosts }

NoUrl == [host |-> [kind |-> "None", text |-> <<>>], path |-> <<>>]

ConvertTypes == {"Emoji", "Avatar", "Preview", "Badge", "Original"}

\* what image::guess_format can report for a body
Sniffs == {"Png", "Jpeg", "Gif", "WebP", "Ico", "Bmp", "Tiff", "None"}

\* every format image::guess_format can report ("Other" is one that the
\* library knows and the code does not list), and its failure
AllSniffs ==
    {"Png", "Jpeg", "Gif", "WebP", "Pnm", "Tiff", "Tga", "Dds", "Bmp", "Ico", "Hdr",
     "OpenExr", "Farbfeld", "Avif", "Qoi", "Other", "None"}

\* URL paths with known, unknown, missing, nested and upper-case suffixes
ClassifyPaths ==
    { <<"/", "i", ".", "p", "n", "g">>,
      <<"/", "i", ".", "j", "p", "g">>,
      <<"/", "i", ".", "j", "p", "e", "g">>,
      <<"/", "i", ".", "j", "f", "i", "f">>,
      <<"/", "i", ".", "p", "j", "p", "e", "g">>,
      <<"/", "i", ".", "p", "j", "p">>,
      <<"/", "i", ".", "g", "i", "f">>,
      <<"/", "i", ".", "s", "v", "g">>,
      <<"/", "i", ".", "w", "e", "b", "p">>,
      <<"/", "i", ".", "i", "c", "o">>,
      <<"/", "i", ".", "b", "m", "p">>,
      <<"/", "i", ".", "t", "i", "f", "f">>,
      <<"/", "i", ".", "a", "v", "i", "f">>,
      <<"/", "i", ".", "a", "p", "n", "g">>,
      <<"/", "i", ".", "h", "t", "m", "l">>,
      <<"/">>,
      <<"/", "p", "n", "g">>,
      <<"/", "a", ".", "g", "i", "f", "/", "b">>,
      <<"/", "a", ".", "t", "a", "r", ".", "g", "i", "f">>,
      <<"/", "i", ".", "P", "N", "G">>,
      <<"/", "i", ".">> }

\* the HTTP status codes of upstream responses
Statuses == {200, 404}
IsSuccess(status) == status \in 200..299

(***************************************************************************)
(* processor.rs: DecodeResult and the transform algebra.                   *)
(***************************************************************************)
Widths == {1, 200, 500, 33554432}
Heights == {100, 128, 129, 423, 1000}
MovieDims == { <<200, 100>>, <<500, 129>>, <<200, 1000>> }
SvgDims == { <<200, 100>>, <<300, 500>> }
\* frame delays in milliseconds, as <<numerator, denominator>>
Delays == { [num |-> 20, den |-> 1], [num |-> 100, den |-> 1], [num |-> 50, den |-> 3] }
\* frame durations an animated WebP body stores, in whole milliseconds
Durations == {20, 100}
\* the animated WebP bodies an upstream can send: a canvas and the stored
\* duration of every frame
AnimFiles ==
    UNION { [canvas : {d}, durations : [1..n -> Durations]] :
              d \in MovieDims, n \in 1..MaxFrames }

Buffer(w, h, src) == [w |-> w, h |-> h, px |-> [src |-> src, resampled |-> FALSE]]
NoBuffer == [w |-> 0, h |-> 0, px |-> [src |-> 0, resampled |-> FALSE]]
Markup(valid, w, h) == [valid |-> valid, w |-> w, h |-> h]
NoMarkup == [valid |-> FALSE, w |-> 0, h |-> 0]
Image(buf) == [tag |-> "Image", img |-> buf, frames |-> <<>>, txt |-> NoMarkup]
Movie(frames) == [tag |-> "Movie", img |-> NoBuffer, frames |-> frames, txt |-> NoMarkup]
TextFmt(txt) == [tag |-> "TextFmt", img |-> NoBuffer, frames |-> <<>>, txt |-> txt]
NoMedia == [tag |-> "None", img |-> NoBuffer, frames |-> <<>>, txt |-> NoMarkup]
Frame(buf, delay) == [buf |-> buf, delay |-> delay]

Ok(v) == [ok |-> TRUE, val |-> v, err |-> "none"]
Err(e) == [ok |-> FALSE, val |-> NoMedia, err |-> e]
OkN(n) == [ok |-> TRUE, n |-> n, err |-> "none"]
ErrN(e) == [ok |-> FALSE, n |-> 0, err |-> e]
PanicMsg == "panic: attempt to multiply with overflow"

\* imageops::resize(buf, w, h, Triangle)
Resample(buf, w, h) == [w |-> w, h |-> h, px |-> [src |-> buf.px.src, resampled |-> TRUE]]

\* render_svg: markup is parsed and rendered at its declared size
render_svg(m) ==
    IF m.tag # "TextFmt" THEN Ok(m)
    ELSE IF ~m.txt.valid THEN Err("usvg::Error")
    ELSE Ok(Image(Buffer(m.txt.w, m.txt.h, 0)))

\* the mutant of height: an empty sequence is reported as zero rows high
height_EmptyIsZero(m) ==
    IF m.tag = "Image" THEN OkN(m.img.h)
    ELSE IF m.tag = "Movie" THEN
        IF m.frames = <<>> THEN OkN(0)
        ELSE OkN(m.frames[1].buf.h)
    ELSE IF m.txt.valid THEN OkN(m.txt.h) ELSE ErrN("usvg::Error")

height(m) ==
    IF m.tag = "Image" THEN OkN(m.img.h)
    ELSE IF m.tag = "Movie" THEN
        IF m.frames = <<>> THEN ErrN("cannot find first frame")
        ELSE OkN(m.frames[1].buf.h)
    ELSE IF m.txt.valid THEN OkN(m.txt.h) ELSE ErrN("usvg::Error")

width(m) ==
    IF m.tag = "Image" THEN OkN(m.img.w)
    ELSE IF m.tag = "Movie" THEN
        IF m.frames = <<>> THEN ErrN("cannot find first frame")
        ELSE OkN(m.frames[1].buf.w)
    ELSE IF m.txt.valid THEN OkN(m.txt.w) ELSE ErrN("usvg::Error")

\* the mutant of resize: every frame is given the delay of the first
resize_FirstDelay(m, h, w) ==
    IF m.tag = "Image" THEN Ok(Image(Resample(m.img, w, h)))
    ELSE IF m.tag = "Movie" THEN
        Ok(Movie([i \in 1..Len(m.frames) |->
                    Frame(Resample(m.frames[i].buf, w, h), m.frames[1].delay)]))
    ELSE LET r == render_svg(m)
         IN  IF r.ok THEN Ok(Image(Resample(r.val.img, w, h))) ELSE r

resize(m, h, w) ==
    IF m.tag = "Image" THEN Ok(Image(Resample(m.img, w, h)))
    ELSE IF m.tag = "Movie" THEN
        Ok(Movie([i \in 1..Len(m.frames) |->
                    Frame(Resample(m.frames[i].buf, w, h), m.frames[i].delay)]))
    ELSE LET r == render_svg(m)
         IN  IF r.ok THEN Ok(Image(Resample(r.val.img, w, h))) ELSE r

\* `checks` is whether the build carries overflow checks
resize_by_height(m, cap, checks) ==
    LET ch == height(m)
    IN  IF ~ch.ok THEN Err(ch.err)
        ELSE IF ch.n <= cap THEN Ok(m)
        ELSE LET cw == width(m)
             IN  IF ~cw.ok THEN Err(cw.err)
                 ELSE IF MulOverflowsU32(cw.n, cap) /\ checks THEN Err(PanicMsg)
                 ELSE resize(m, cap, WrappingMulDivU32(cw.n, cap, ch.n))

\* the mutant of first: the last frame is kept instead of the first
first_LastFrame(m) ==
    IF m.tag # "Movie" THEN Ok(m)
    ELSE IF m.frames = <<>> THEN Err("cannot find first frame")
    ELSE Ok(Image(m.frames[Len(m.frames)].buf))

first(m) ==
    IF m.tag # "Movie" THEN Ok(m)
    ELSE IF m.frames = <<>> THEN Err("cannot find first frame")
    ELSE Ok(Image(m.frames[1].buf))

static_(m, checks) ==
    LET f == first(m)
    IN  IF f.ok THEN resize_by_height(f.val, STATIC_HEIGHT, checks) ELSE f

\* the mutant of emoji: the cap of avatar is applied
emoji_AvatarCap(m, checks) == resize_by_height(m, AVATER_HEIGHT, checks)

emoji(m, checks) == resize_by_height(m, EMOJI_HEIGHT, checks)
avatar(m, checks) == resize_by_height(m, AVATER_HEIGHT, checks)
preview(m) == resize(m, PREVIEW_HEIGHT, PREVIEW_WIDTH)
badge(m) == resize(m, BADGE_HEIGHT, BADGE_WIDTH)

\* the preset arm of media_proxy
ApplyPreset(convert_type, m, checks) ==
    IF convert_type = "Emoji" THEN emoji(m, checks)
    ELSE IF convert_type = "Avatar" THEN avatar(m, checks)
    ELSE IF convert_type = "Preview" THEN preview(m)
    ELSE IF convert_type = "Badge" THEN badge(m)
    ELSE Ok(m)

\* the mutant of ConvertTypeOf: badge is looked at before preview
ConvertTypeOf_BadgeFirst(q) ==
    IF q.emoji THEN "Emoji"
    ELSE IF q.avatar THEN "Avatar"
    ELSE IF q.badge THEN "Badge"
    ELSE IF q.preview THEN "Preview"
    ELSE "Original"

\* TryFrom<ProxyQuery> for ProxyConfig: the preset of a query
ConvertTypeOf(q) ==
    IF q.emoji THEN "Emoji"
    ELSE IF q.avatar THEN "Avatar"
    ELSE IF q.preview THEN "Preview"
    ELSE IF q.badge THEN "Badge"
    ELSE "Original"

(***************************************************************************)
(* webp.rs: the log of native calls.  An entry is the native function and  *)
(* the handle it acquired, used or tore down; handle 0 is the null         *)
(* pointer.  Handles are numbered in the order they are acquired.          *)
(***************************************************************************)
Call(fn, h) == [fn |-> fn, h |-> h]

AcquireFns ==
    {"WebPPictureInit", "WebPMemoryWriterInit", "WebPAnimEncoderNewInternal",
     "WebPAnimEncoderAssemble", "WebPMuxCreateInternal", "WebPMuxAssemble",
     "WebPAnimDecoderNew"}

TeardownFns ==
    {"WebPPictureFree", "WebPMemoryWriterClear", "WebPAnimEncoderDelete",
     "WebPDataClear", "WebPMuxDelete", "WebPAnimDecoderDelete"}

\* the handles a log has acquired, and those acquired by the given functions
AcquiredBy(log, fns) ==
    { log[i].h : i \in { j \in 1..Len(log) : log[j].fn \in fns /\ log[j].h # 0 } }
Acquired(log) == AcquiredBy(log, AcquireFns)

\* the number of teardown calls a log holds for handle h
Teardowns(log, h) ==
    Cardinality({ i \in 1..Len(log) : log[i].fn \in TeardownFns /\ log[i].h = h })

\* the number of calls of fn in a log
CallsOf(log, fn) == Cardinality({ i \in 1..Len(log) : log[i].fn = fn })

\* what a native call of the encode paths returned: whether it reported
\* success and, on failure, the error code the library holds for it ("none"
\* where the library reports nothing beyond the return value)
Ret(fn, ok, code) == [fn |-> fn, ok |-> ok, code |-> code]
Succeeded(fn) == Ret(fn, TRUE, "none")
\* a mux-level call returns its WebPMuxError
MuxRet(fn, e) == Ret(fn, e = "WEBP_MUX_OK", IF e = "WEBP_MUX_OK" THEN "none" ELSE e)

\* the next fresh handle
NewHandle(log) == Cardinality(Acquired(log)) + 1

(***************************************************************************)
(* The state of one request.                                               *)
(***************************************************************************)
VARIABLES
    pc,               \* the position of the request in the pipeline
    query,            \* the ProxyQuery the handler was called with
    url,              \* ProxyConfig.url
    cfg,              \* ProxyConfig.convert_type and is_static
    overflow_checks,  \* whether the build panics on integer overflow
    getCount,         \* the number of HTTP GETs issued
    resp,             \* the upstream response: status and sniffed body format
    ext,              \* the ImageExt the body is decoded as
    media,            \* decoded_buf, the DecodeResult in flight
    result,           \* what the handler returns
    steps,            \* the pipeline steps executed so far, in order
    native,           \* the log of native calls
    dec,              \* locals of the animated decode
    enc,              \* locals of the encode
    sched             \* the scheduler model: worker threads and tasks

vars == <<pc, query, url, cfg, overflow_checks, getCount, resp, ext, media, result,
          steps, native, dec, enc, sched>>

Pending == [kind |-> "pending", msg |-> "", content_type |-> "", body |-> "none"]
Failure(msg) ==
    [kind |-> IF msg = PanicMsg THEN "panic" ELSE "err", msg |-> msg,
     content_type |-> "", body |-> "none"]
Success(content_type, body) ==
    [kind |-> "ok", msg |-> "", content_type |-> content_type, body |-> body]
Cancelled == [kind |-> "cancelled", msg |-> "", content_type |-> "", body |-> "none"]

\* a body that is not an animation
NoAnim == [canvas |-> <<0, 0>>, durations |-> <<>>]
NoResp == [status |-> 0, sniff |-> "None", anim |-> NoAnim]
NoDec == [decoder |-> 0, opened |-> FALSE, canvas |-> <<0, 0>>, remaining |-> 0,
          pulled |-> <<>>, clock |-> 0]
NoEnc == [path |-> "none", pic |-> 0, wrt |-> 0, anim |-> 0, data |-> 0, mux |-> 0,
          i |-> 0, time_stamp_ms |-> 0, submitted |-> <<>>, file |-> NoAnim,
          returned |-> <<>>]
NoSched == [task |-> <<>>]

\* the request ends with an error (or a panic) and returns nothing else
Fail(msg) ==
    /\ pc' = "done"
    /\ result' = Failure(msg)

ReqInit ==
    /\ pc = "handler"
    /\ url = NoUrl
    /\ cfg = [convert_type |-> "Original", is_static |-> FALSE]
    /\ overflow_checks \in BOOLEAN
    /\ getCount = 0
    /\ resp = NoResp
    /\ ext = "Unknown"
    /\ media = NoMedia
    /\ result = Pending
    /\ steps = <<>>
    /\ native = <<>>
    /\ dec = NoDec
    /\ enc = NoEnc


(***************************************************************************)
(* main.rs / handler.rs / client.rs: the pipeline up to the decode.        *)
(***************************************************************************)
Queries ==
    [url : Urls \cup {NoUrl}, emoji : BOOLEAN, avatar : BOOLEAN, static : BOOLEAN,
     preview : BOOLEAN, badge : BOOLEAN]

\* the query once try_into has consumed it
NoQuery ==
    [url |-> NoUrl, emoji |-> FALSE, avatar |-> FALSE, static |-> FALSE,
     preview |-> FALSE, badge |-> FALSE]

Init ==
    /\ ReqInit
    /\ query \in Queries
    /\ sched = NoSched

\* proxy_handler: query.try_into(), which consumes the query; NoUrl stands
\* for text Url::parse rejects
ParseQuery ==
    /\ pc = "handler"
    /\ query' = NoQuery
    /\ IF query.url = NoUrl
       THEN /\ Fail("url::ParseError")
            /\ UNCHANGED <<url, cfg>>
       ELSE /\ url' = query.url
            /\ cfg' = [convert_type |-> ConvertTypeOf(query), is_static |-> query.static]
            /\ pc' = "download"
            /\ UNCHANGED result
    /\ UNCHANGED <<overflow_checks, getCount, resp, ext, media, steps, native, dec,
                   enc, sched>>

\* download_image: the address check, then client.get(url).send() is issued
\* and awaited
CheckAddress ==
    /\ pc = "download"
    /\ IF is_private_like(url)
       THEN /\ Fail("Cannot accept ipaddr")
            /\ UNCHANGED <<getCount, steps>>
       ELSE /\ getCount' = getCount + 1
            /\ steps' = Append(steps, "Fetch")
            /\ pc' = "await_send"
            /\ UNCHANGED result
    /\ UNCHANGED <<query, url, cfg, overflow_checks, resp, ext, media, native, dec, enc, sched>>

\* the mutant of SendCompletes: a failed send is issued again
SendCompletes_Retry ==
    /\ pc = "await_send"
    /\ \E outcome \in {0} \cup Statuses :
        IF outcome = 0
        THEN /\ getCount' = getCount + 1
             /\ UNCHANGED <<pc, resp, result>>
        ELSE /\ resp' = [resp EXCEPT !.status = outcome]
             /\ pc' = "await_body"
             /\ UNCHANGED <<getCount, result>>
    /\ UNCHANGED <<query, url, cfg, overflow_checks, ext, media, steps, native, dec, enc, sched>>

\* send() completes: a transport error, or a response of any status (send()
\* does not look at the status, and error_for_status is not called)
SendCompletes ==
    /\ pc = "await_send"
    /\ \E outcome \in {0} \cup Statuses :
        IF outcome = 0
        THEN /\ Fail("reqwest::Error")
             /\ UNCHANGED resp
        ELSE /\ resp' = [resp EXCEPT !.status = outcome]
             /\ pc' = "await_body"
             /\ UNCHANGED result
    /\ UNCHANGED <<query, url, cfg, overflow_checks, getCount, ext, media, steps, native,
                   dec, enc, sched>>

\* resp.bytes() completes: a transport error, or the whole body; only a
\* body with the WebP signature can hold an animation
BodyCompletes ==
    /\ pc = "await_body"
    /\ \E ok \in BOOLEAN, s \in Sniffs, a \in AnimFiles \cup {NoAnim} :
        IF ~ok
        THEN /\ s = "None"
             /\ a = NoAnim
             /\ Fail("reqwest::Error")
             /\ UNCHANGED resp
        ELSE /\ a # NoAnim => s = "WebP"
             /\ resp' = [resp EXCEPT !.sniff = s, !.anim = a]
             /\ pc' = "classify"
             /\ UNCHANGED result
    /\ UNCHANGED <<query, url, cfg, overflow_checks, getCount, ext, media, steps, native,
                   dec, enc, sched>>

\* the caller drops the request future while it is suspended
Cancel ==
    /\ pc \in {"await_send", "await_body"}
    /\ pc' = "done"
    /\ result' = Cancelled
    /\ UNCHANGED <<query, url, cfg, overflow_checks, getCount, resp, ext, media, steps,
                   native, dec, enc, sched>>

\* download_image: get_image_ext, then guess_format on Unknown
Classify ==
    /\ pc = "classify"
    /\ ext' = IF get_image_ext(url) = "Unknown" THEN guess_format(resp.sniff)
              ELSE get_image_ext(url)
    /\ steps' = Append(steps, "Classify")
    /\ pc' = "decode"
    /\ UNCHANGED <<query, url, cfg, overflow_checks, getCount, resp, media, result, native,
                   dec, enc, sched>>

\* the classification on its own: the body of any URL has arrived with any
\* signature
ClassifyInit ==
    /\ pc = "classify"
    /\ query = NoQuery
    /\ url \in { [host |-> OrdinaryHost, path |-> p] : p \in ClassifyPaths }
    /\ cfg = [convert_type |-> "Original", is_static |-> FALSE]
    /\ overflow_checks = FALSE
    /\ getCount = 1
    /\ resp \in [status : {200}, sniff : AllSniffs, anim : {NoAnim}]
    /\ ext = "Unknown"
    /\ media = NoMedia
    /\ result = Pending
    /\ steps = <<"Fetch">>
    /\ native = <<>>
    /\ dec = NoDec
    /\ enc = NoEnc
    /\ sched = NoSched

SpecClassify == ClassifyInit /\ [][Classify]_vars

(***************************************************************************)
(* client.rs: the decode arms of download_image.  What a decoder yields is *)
(* fixed by the body; the model draws it from the sets below.              *)
(***************************************************************************)
\* the signature a body must carry for the decoder of an ImageExt to accept it
SniffOf(e) ==
    IF e = "Png" THEN "Png" ELSE IF e = "Jpeg" THEN "Jpeg" ELSE IF e = "Gif" THEN "Gif"
    ELSE IF e = "Webp" THEN "WebP" ELSE IF e = "Ico" THEN "Ico" ELSE "None"

\* still images a decoder can yield: only PNG carries widths above 65535
StillImages(e) ==
    { Image(Buffer(w, h, 0)) :
        w \in { x \in Widths : e = "Png" \/ x <= 65535 }, h \in Heights }

\* frame sequences of n frames on one canvas
FrameSeqs(n, d) ==
    { [i \in 1..n |-> Frame(Buffer(d[1], d[2], i), dl[i])] : dl \in [1..n -> Delays] }

Movies == UNION { { Movie(f) : f \in FrameSeqs(n, d) } : n \in 0..MaxFrames, d \in MovieDims }

Markups == { Markup(v, d[1], d[2]) : v \in BOOLEAN, d \in SvgDims }

DecodeStill ==
    /\ pc = "decode"
    /\ ext \in {"Png", "Jpeg", "Ico"}
    /\ steps' = Append(steps, "Decode")
    /\ \/ /\ Fail("image::ImageError")
          /\ UNCHANGED media
       \/ /\ resp.sniff = SniffOf(ext)
          /\ \E m \in StillImages(ext) : media' = m
          /\ pc' = "static"
          /\ UNCHANGED result
    /\ UNCHANGED <<query, url, cfg, overflow_checks, getCount, resp, ext, native, dec, enc,
                   sched>>

DecodeGif ==
    /\ pc = "decode"
    /\ ext = "Gif"
    /\ steps' = Append(steps, "Decode")
    /\ \/ /\ Fail("image::ImageError")
          /\ UNCHANGED media
       \/ /\ resp.sniff = SniffOf(ext)
          /\ \E m \in Movies : media' = m
          /\ pc' = "static"
          /\ UNCHANGED result
    /\ UNCHANGED <<query, url, cfg, overflow_checks, getCount, resp, ext, native, dec, enc,
                   sched>>

DecodeSvg ==
    /\ pc = "decode"
    /\ ext = "Svg"
    /\ steps' = Append(steps, "Decode")
    /\ \E t \in Markups : media' = TextFmt(t)
    /\ pc' = "static"
    /\ UNCHANGED <<query, url, cfg, overflow_checks, getCount, resp, ext, result, native, dec,
                   enc, sched>>

\* the Webp arm: WebPDecoder::new, then has_animation picks the native
\* animation decoder or the generic still decode
DecodeWebp ==
    /\ pc = "decode"
    /\ ext = "Webp"
    /\ steps' = Append(steps, "Decode")
    /\ \/ /\ Fail("image::ImageError")
          /\ UNCHANGED media
       \/ /\ resp.sniff = SniffOf(ext)
          /\ resp.anim = NoAnim
          /\ \E m \in StillImages(ext) : media' = m
          /\ pc' = "static"
          /\ UNCHANGED result
       \/ /\ resp.sniff = SniffOf(ext)
          /\ resp.anim # NoAnim
          /\ pc' = "dec_new"
          /\ UNCHANGED <<media, result>>
    /\ UNCHANGED <<query, url, cfg, overflow_checks, getCount, resp, ext, native, dec, enc,
                   sched>>

DecodeUnknown ==
    /\ pc = "decode"
    /\ ext = "Unknown"
    /\ steps' = Append(steps, "Decode")
    /\ Fail("Not supported")
    /\ UNCHANGED <<query, url, cfg, overflow_checks, getCount, resp, ext, media, native, dec,
                   enc, sched>>

(***************************************************************************)
(* webp.rs: decode_webp_anim.                                              *)
(***************************************************************************)
\* the mutant of the decoder's Drop: the decoder is reset but not deleted
DropAnimDecoder_ResetOnly(log, d) == Append(log, Call("WebPAnimDecoderReset", d))

\* Drop for ManagedWebpAnimDecoder
DropAnimDecoder(log, d) ==
    log \o <<Call("WebPAnimDecoderReset", d), Call("WebPAnimDecoderDelete", d)>>

\* download_image returns after decode_webp_anim has: buf, the body bytes the
\* decoder borrowed as src, is released
DropBuf(log) == Append(log, Call("drop(buf)", 0))

\* ManagedWebpAnimDecoder::new: the wrapper exists only when the options
\* initialised and the native decoder is not null
AnimDecNew ==
    /\ pc = "dec_new"
    /\ \E outcome \in {"options", "null", "ok"} :
        IF outcome = "options"
        THEN /\ Fail("anim decoder option init failed")
             /\ native' = DropBuf(native)
             /\ UNCHANGED dec
        ELSE IF outcome = "null"
        THEN /\ native' = DropBuf(Append(native, Call("WebPAnimDecoderNew", 0)))
             /\ Fail("anim decoder init failed")
             /\ UNCHANGED dec
        ELSE /\ native' = Append(native, Call("WebPAnimDecoderNew", NewHandle(native)))
             /\ dec' = [dec EXCEPT !.decoder = NewHandle(native), !.opened = TRUE]
             /\ pc' = "dec_info"
             /\ UNCHANGED result
    /\ UNCHANGED <<query, url, cfg, overflow_checks, getCount, resp, ext, media, steps, enc,
                   sched>>

\* decode_innternal: get_anim_info; the canvas and the number of frames the
\* decoder reports are those of the input bytes
AnimDecInfo ==
    /\ pc = "dec_info"
    /\ \E info_ok \in BOOLEAN :
        IF ~info_ok
        THEN /\ native' = DropBuf(DropAnimDecoder(
                    Append(native, Call("WebPAnimDecoderGetInfo", dec.decoder)),
                    dec.decoder))
             /\ Fail("getting anim info failed")
             /\ UNCHANGED dec
        ELSE /\ native' = Append(native, Call("WebPAnimDecoderGetInfo", dec.decoder))
             /\ dec' = [dec EXCEPT !.canvas = resp.anim.canvas,
                                    !.remaining = Len(resp.anim.durations)]
             /\ pc' = "dec_loop"
             /\ UNCHANGED result
    /\ UNCHANGED <<query, url, cfg, overflow_checks, getCount, resp, ext, media, steps, enc,
                   sched>>

\* RgbaImage::from_raw(width, height, buf) is None when buf is too short
FromRawAccepts(w, h, len) == len >= w * h * 4

\* the native WebPAnimDecoderGetNext: the timestamp it reports for a frame is
\* the time at which the frame stops being shown, the sum of the stored
\* durations up to and including it
WebPAnimDecoderGetNext(file, k, clock) == clock + file.durations[k]

\* one pass of the while loop: WebPAnimDecoderGetNext, then the copy
AnimDecNext ==
    /\ pc = "dec_loop"
    /\ dec.remaining > 0
    /\ \E is_ok \in BOOLEAN :
        LET w == dec.canvas[1]
            h == dec.canvas[2]
            outbuf_length == w * h * 4
            timestamp == WebPAnimDecoderGetNext(resp.anim, Len(dec.pulled) + 1, dec.clock)
            called == Append(native, Call("WebPAnimDecoderGetNext", dec.decoder))
            \* buf.to_vec(): the frame is copied out of the decoder's buffer
            copied == Append(called, Call("copy", dec.decoder))
        IN  IF ~is_ok
            THEN /\ native' = DropBuf(DropAnimDecoder(called, dec.decoder))
                 /\ Fail("webp anim decode failed")
                 /\ UNCHANGED dec
            ELSE IF ~FromRawAccepts(w, h, outbuf_length)
            THEN /\ native' = DropBuf(DropAnimDecoder(copied, dec.decoder))
                 /\ Fail("read rgba image failed")
                 /\ UNCHANGED dec
            ELSE /\ native' = copied
                 /\ dec' = [dec EXCEPT
                        !.pulled = Append(@, [buf |-> Buffer(w, h, Len(@) + 1),
                                              timestamp |-> timestamp]),
                        !.remaining = @ - 1,
                        !.clock = timestamp]
                 /\ UNCHANGED <<pc, result>>
    /\ UNCHANGED <<query, url, cfg, overflow_checks, getCount, resp, ext, media, steps, enc,
                   sched>>

\* the mutant of DiffTimestamps: the cumulative timestamp is taken as the delay
DiffTimestamps_Cumulative(pulled) ==
    [i \in 1..Len(pulled) |->
        Frame(pulled[i].buf, [num |-> pulled[i].timestamp, den |-> 1])]

\* decode: consecutive cumulative timestamps become per-frame delays
DiffTimestamps(pulled) ==
    [i \in 1..Len(pulled) |->
        Frame(pulled[i].buf,
              [num |-> pulled[i].timestamp
                         - (IF i = 1 THEN 0 ELSE pulled[i - 1].timestamp),
               den |-> 1])]

\* WebPAnimDecoderHasMoreFrames is 0: decode returns and the decoder drops
AnimDecFinish ==
    /\ pc = "dec_loop"
    /\ dec.remaining = 0
    /\ media' = Movie(DiffTimestamps(dec.pulled))
    /\ native' = DropBuf(DropAnimDecoder(native, dec.decoder))
    /\ pc' = "static"
    /\ UNCHANGED <<query, url, cfg, overflow_checks, getCount, resp, ext, result, steps, dec,
                   enc, sched>>

(***************************************************************************)
(* handler.rs: media_proxy after the download.                             *)
(***************************************************************************)
\* the mutant of StaticFirst: the static flag is not looked at
StaticFirst_Skipped ==
    /\ pc = "static"
    /\ pc' = "preset"
    /\ UNCHANGED <<query, url, cfg, overflow_checks, getCount, resp, ext, media, result,
                   steps, native, dec, enc, sched>>

\* static_: self.first()?
StaticFirst ==
    /\ pc = "static"
    /\ IF ~cfg.is_static
       THEN /\ pc' = "preset"
            /\ UNCHANGED <<media, result, steps>>
       ELSE /\ steps' = Append(steps, "Static")
            /\ LET r == first(media)
               IN  IF r.ok
                   THEN /\ media' = r.val
                        /\ pc' = "static_cap"
                        /\ UNCHANGED result
                   ELSE /\ Fail(r.err)
                        /\ UNCHANGED media
    /\ UNCHANGED <<query, url, cfg, overflow_checks, getCount, resp, ext, native, dec, enc,
                   sched>>

\* static_: .resize_by_height(STATIC_HEIGHT)
StaticCap ==
    /\ pc = "static_cap"
    /\ LET r == resize_by_height(media, STATIC_HEIGHT, overflow_checks)
       IN  IF r.ok
           THEN /\ media' = r.val
                /\ pc' = "preset"
                /\ UNCHANGED result
           ELSE /\ Fail(r.err)
                /\ UNCHANGED media
    /\ UNCHANGED <<query, url, cfg, overflow_checks, getCount, resp, ext, steps, native, dec,
                   enc, sched>>

\* the match on convert_type; media_proxy then returns the media
Preset ==
    /\ pc = "preset"
    /\ steps' = Append(steps, "Preset")
    /\ LET r == ApplyPreset(cfg.convert_type, media, overflow_checks)
       IN  IF r.ok
           THEN /\ media' = r.val
                /\ pc' = "respond"
                /\ UNCHANGED result
           ELSE /\ Fail(r.err)
                /\ UNCHANGED media
    /\ UNCHANGED <<query, url, cfg, overflow_checks, getCount, resp, ext, native, dec, enc,
                   sched>>

(***************************************************************************)
(* main.rs: the response arm of proxy_handler.                             *)
(***************************************************************************)
\* DecodeResult::to_png: the media is written in the plain still-image
\* format by the generic image encoder, which can fail; the WebP encoder
\* has no part in it
to_png(m, ok) ==
    IF ok THEN [ok |-> TRUE, body |-> "png", err |-> "none"]
    ELSE [ok |-> FALSE, body |-> "none", err |-> "image::ImageError"]

\* Badge: buf.to_png()
RespondPng ==
    /\ pc = "respond"
    /\ cfg.convert_type = "Badge"
    /\ steps' = Append(steps, "Encode")
    /\ pc' = "done"
    /\ \E ok \in BOOLEAN :
        LET r == to_png(media, ok)
        IN  result' = IF r.ok THEN Success("image/png", r.body) ELSE Failure(r.err)
    /\ UNCHANGED <<query, url, cfg, overflow_checks, getCount, resp, ext, media, native, dec,
                   enc, sched>>

\* the mutant of RespondWebp: the arm is taken for Badge too
RespondWebp_BadgeToo ==
    /\ pc = "respond"
    /\ steps' = Append(steps, "Encode")
    /\ LET r == render_svg(media)
       IN  IF ~r.ok
           THEN /\ Fail(r.err)
                /\ UNCHANGED <<media, enc>>
           ELSE /\ media' = r.val
                /\ enc' = [enc EXCEPT
                       !.path = IF r.val.tag = "Movie" THEN "anim" ELSE "image"]
                /\ pc' = IF r.val.tag = "Movie" THEN "anim_new" ELSE "img_from_rgba"
                /\ UNCHANGED result
    /\ UNCHANGED <<query, url, cfg, overflow_checks, getCount, resp, ext, native, dec, sched>>

\* every other preset: buf.to_webp(quality_factor), which renders markup and
\* picks the still or the animated encoder
RespondWebp ==
    /\ pc = "respond"
    /\ cfg.convert_type # "Badge"
    /\ steps' = Append(steps, "Encode")
    /\ LET r == render_svg(media)
       IN  IF ~r.ok
           THEN /\ Fail(r.err)
                /\ UNCHANGED <<media, enc>>
           ELSE /\ media' = r.val
                /\ enc' = [enc EXCEPT
                       !.path = IF r.val.tag = "Movie" THEN "anim" ELSE "image"]
                /\ pc' = IF r.val.tag = "Movie" THEN "anim_new" ELSE "img_from_rgba"
                /\ UNCHANGED result
    /\ UNCHANGED <<query, url, cfg, overflow_checks, getCount, resp, ext, native, dec, sched>>

(***************************************************************************)
(* webp.rs: the wrappers' Drop implementations.                            *)
(***************************************************************************)
\* Drop for ManagedWebpPicture
DropPicture(log, p) == Append(log, Call("WebPPictureFree", p))
\* Drop for ManagedWebpMemoryWriter
DropMemoryWriter(log, w) == Append(log, Call("WebPMemoryWriterClear", w))
\* Drop for ManagedWebpData: clears whatever the WebPData points to now
DropData(log, d) == Append(log, Call("WebPDataClear", d))
\* Drop for ManagedWebpMux
DropMux(log, m) == Append(log, Call("WebPMuxDelete", m))
\* Drop for ManagedWebpAnim
DropAnim(log, a) == Append(log, Call("WebPAnimEncoderDelete", a))

(***************************************************************************)
(* webp.rs: ManagedWebpPicture::from_rgba.  The WebPPicture is a bare      *)
(* struct until `Ok(Self { config, picture })` wraps it.                   *)
(***************************************************************************)
FromRgbaOutcomes == {"config", "validate", "picture", "import", "ok"}

from_rgba(log, outcome) ==
    LET p == NewHandle(log)
        inited == Append(log, Call("WebPPictureInit", p))
        imported == Append(inited, Call("WebPPictureImportRGBA", p))
        config == <<Succeeded("WebPConfigInitInternal")>>
        validated == Append(config, Succeeded("WebPValidateConfig"))
        picture == Append(validated, Succeeded("WebPPictureInitInternal"))
    IN  IF outcome = "config"
        THEN [log |-> log, pic |-> 0, err |-> "WebPConfig init failed",
              returned |-> <<Ret("WebPConfigInitInternal", FALSE, "none")>>]
        ELSE IF outcome = "validate"
        THEN [log |-> log, pic |-> 0, err |-> "WebpConfig Validate error",
              returned |-> Append(config, Ret("WebPValidateConfig", FALSE, "none"))]
        ELSE IF outcome = "picture"
        THEN [log |-> log, pic |-> 0, err |-> "WebPPicture init failed",
              returned |-> Append(validated, Ret("WebPPictureInitInternal", FALSE, "none"))]
        ELSE IF outcome = "import"
        THEN [log |-> imported, pic |-> 0, err |-> "Webp importRGBA failed",
              returned |-> Append(picture, Ret("WebPPictureImportRGBA", FALSE,
                                               "VP8_ENC_ERROR_OUT_OF_MEMORY"))]
        ELSE [log |-> imported, pic |-> p, err |-> "none",
              returned |-> Append(picture, Succeeded("WebPPictureImportRGBA"))]

(***************************************************************************)
(* webp.rs: encode_webp_image.                                             *)
(***************************************************************************)
ImgFromRgba ==
    /\ pc = "img_from_rgba"
    /\ \E outcome \in FromRgbaOutcomes :
        LET r == from_rgba(native, outcome)
        IN  /\ native' = r.log
            /\ IF r.err # "none"
               THEN /\ Fail(r.err)
                    /\ enc' = [enc EXCEPT !.returned = @ \o r.returned]
               ELSE /\ enc' = [enc EXCEPT !.pic = r.pic, !.returned = @ \o r.returned]
                    /\ pc' = "img_encode"
                    /\ UNCHANGED result
    /\ UNCHANGED <<query, url, cfg, overflow_checks, getCount, resp, ext, media, steps, dec,
                   sched>>

\* ManagedWebpPicture::encode: the writer is wrapped before the status is
\* looked at, and self drops when encode returns
ImgEncode ==
    /\ pc = "img_encode"
    /\ \E status \in {0, 1} :
        LET w == NewHandle(native)
            encoded == native \o <<Call("WebPMemoryWriterInit", w),
                                   Call("WebPEncode", enc.pic)>>
        IN  IF status # 0
            THEN /\ native' = DropPicture(encoded, enc.pic)
                 /\ enc' = [enc EXCEPT !.wrt = w,
                                        !.returned = Append(@, Succeeded("WebPEncode"))]
                 /\ pc' = "img_copy"
                 /\ UNCHANGED result
            ELSE /\ native' = DropPicture(DropMemoryWriter(encoded, w), enc.pic)
                 /\ Fail("WebpEncode error code: 0")
                 /\ enc' = [enc EXCEPT
                        !.returned = Append(@, Ret("WebPEncode", FALSE,
                                                   "VP8_ENC_ERROR_OUT_OF_MEMORY"))]
    /\ UNCHANGED <<query, url, cfg, overflow_checks, getCount, resp, ext, media, steps, dec,
                   sched>>

\* encode_webp_image: wrt.get() is copied, then wrt drops
ImgCopy ==
    /\ pc = "img_copy"
    /\ native' = DropMemoryWriter(Append(native, Call("copy", enc.wrt)), enc.wrt)
    /\ result' = Success("image/webp", "webp")
    /\ pc' = "done"
    /\ UNCHANGED <<query, url, cfg, overflow_checks, getCount, resp, ext, media, steps, dec,
                   enc, sched>>

(***************************************************************************)
(* webp.rs: encode_webp_anim.                                              *)
(***************************************************************************)
\* ManagedWebpAnim::new: what WebPAnimEncoderOptionsInitInternal returns is
\* dropped and the encoder pointer is stored unchecked.  The options call
\* fails only on the ABI version, which WebPAnimEncoderNewInternal is given
\* too and answers with a null encoder.
AnimNew ==
    /\ pc = "anim_new"
    /\ IF media.frames = <<>>
       THEN /\ Fail("cannot get first frame")
            /\ UNCHANGED <<native, enc>>
       ELSE \E options_ok, created \in BOOLEAN :
            LET a == IF created THEN NewHandle(native) ELSE 0
            IN  /\ ~options_ok => ~created
                /\ native' = Append(native, Call("WebPAnimEncoderNewInternal", a))
                /\ enc' = [enc EXCEPT !.anim = a, !.i = 1, !.time_stamp_ms = 0,
                                       !.submitted = <<>>,
                                       !.returned =
                        <<Ret("WebPAnimEncoderOptionsInitInternal", options_ok, "none"),
                          Ret("WebPAnimEncoderNewInternal", created, "none")>>]
                /\ pc' = "anim_add"
                /\ UNCHANGED result
    /\ UNCHANGED <<query, url, cfg, overflow_checks, getCount, resp, ext, media, steps, dec,
                   sched>>

\* the mutant of NextTimeStamp: the delay's denominator is not divided by
NextTimeStamp_NumeratorOnly(time_stamp, delay) == time_stamp + delay.num

\* anim_encoder_add: *time_stamp += duration.0 / duration.1
NextTimeStamp(time_stamp, delay) == time_stamp + (delay.num \div delay.den)

\* one pass of the loop of encode: anim_encoder_add(f, &mut time_stamp_ms).
\* WebPAnimEncoderAdd on a null encoder reports failure.
AnimAdd ==
    /\ pc = "anim_add"
    /\ enc.i <= Len(media.frames)
    /\ \E outcome \in FromRgbaOutcomes, st \in {0, 1} :
        LET f == media.frames[enc.i]
            time_stamp == NextTimeStamp(enc.time_stamp_ms, f.delay)
            r == from_rgba(native, outcome)
            added == Append(r.log, Call("WebPAnimEncoderAdd", r.pic))
            status == IF enc.anim = 0 THEN 0 ELSE st
            submission == [frame |-> enc.i, src |-> f.buf.px.src,
                           timestamp |-> time_stamp, status |-> status]
            add_failed == Ret("WebPAnimEncoderAdd", FALSE,
                              IF enc.anim = 0 THEN "none"
                              ELSE "VP8_ENC_ERROR_OUT_OF_MEMORY")
        IN  IF r.err # "none"
            THEN /\ st = 0
                 /\ native' = DropAnim(r.log, enc.anim)
                 /\ Fail(r.err)
                 /\ enc' = [enc EXCEPT !.returned = @ \o r.returned]
            ELSE IF status = 0
            THEN /\ st = 0
                 /\ native' = DropAnim(DropPicture(added, r.pic), enc.anim)
                 /\ Fail("Webp Anim encode faild: 0")
                 /\ enc' = [enc EXCEPT !.submitted = Append(@, submission),
                                        !.returned = Append(@ \o r.returned, add_failed)]
            ELSE /\ native' = DropPicture(added, r.pic)
                 /\ enc' = [enc EXCEPT !.i = @ + 1, !.time_stamp_ms = time_stamp,
                                        !.submitted = Append(@, submission),
                                        !.returned = Append(@ \o r.returned,
                                                            Succeeded("WebPAnimEncoderAdd"))]
                 /\ UNCHANGED <<pc, result>>
    /\ UNCHANGED <<query, url, cfg, overflow_checks, getCount, resp, ext, media, steps, dec,
                   sched>>

\* the native WebPAnimEncoderAssemble: the timestamp a frame was added at is
\* the time at which it starts being shown, so a frame is stored with the
\* distance to the next frame's timestamp as its duration; no closing call
\* with a null frame having been made, the last frame gets the average of
\* the others' durations, and a lone frame gets none
WebPAnimEncoderAssemble(canvas, submitted) ==
    LET n == Len(submitted)
    IN  [canvas |-> canvas,
         durations |->
            [k \in 1..n |->
                IF k < n THEN submitted[k + 1].timestamp - submitted[k].timestamp
                ELSE IF n > 1
                THEN (submitted[n].timestamp - submitted[1].timestamp) \div (n - 1)
                ELSE 0]]

\* after the loop: WebPAnimEncoderAssemble fills a WebPData, which
\* ManagedWebpData then owns
AnimAssemble ==
    /\ pc = "anim_add"
    /\ enc.i > Len(media.frames)
    /\ \E status \in {0, 1} :
        IF status = 0
        THEN /\ native' = DropAnim(Append(native, Call("WebPAnimEncoderAssemble", 0)),
                                   enc.anim)
             /\ Fail("Webp Anim Assemble failed: 0")
             /\ enc' = [enc EXCEPT
                    !.returned = Append(@, Ret("WebPAnimEncoderAssemble", FALSE,
                                               "VP8_ENC_ERROR_OUT_OF_MEMORY"))]
        ELSE /\ native' = Append(native, Call("WebPAnimEncoderAssemble", NewHandle(native)))
             /\ enc' = [enc EXCEPT
                    !.data = NewHandle(native),
                    !.returned = Append(@, Succeeded("WebPAnimEncoderAssemble")),
                    !.file = WebPAnimEncoderAssemble(
                                <<media.frames[1].buf.w, media.frames[1].buf.h>>,
                                enc.submitted)]
             /\ pc' = "anim_mux"
             /\ UNCHANGED result
    /\ UNCHANGED <<query, url, cfg, overflow_checks, getCount, resp, ext, media, steps, dec,
                   sched>>

\* the mutant of check_mux_error: every mux status is taken as success
check_mux_error_AlwaysOk(e) == "none"

\* check_mux_error: the message of the error it returns, "none" for Ok(())
check_mux_error(e) == IF e = "WEBP_MUX_OK" THEN "none" ELSE "mux err"

\* ManagedWebpMux::new (the pointer is stored unchecked), then
\* WebPMuxSetAnimationParams, which rejects a null mux.  On the error return
\* mux, webp_data and self drop in that order.
AnimMux ==
    /\ pc = "anim_mux"
    /\ \E outcome \in {"null", "params", "ok"} :
        LET m == IF outcome = "null" THEN 0 ELSE NewHandle(native)
            called == native \o <<Call("WebPMuxCreateInternal", m),
                                  Call("WebPMuxSetAnimationParams", m)>>
            created == Ret("WebPMuxCreateInternal", m # 0, "none")
            e == IF outcome = "null" THEN "WEBP_MUX_INVALID_ARGUMENT"
                 ELSE IF outcome = "params" THEN "WEBP_MUX_MEMORY_ERROR"
                 ELSE "WEBP_MUX_OK"
            params == MuxRet("WebPMuxSetAnimationParams", e)
        IN  IF check_mux_error(e) # "none"
            THEN /\ native' = DropAnim(DropData(DropMux(called, m), enc.data), enc.anim)
                 /\ Fail(check_mux_error(e))
                 /\ enc' = [enc EXCEPT !.returned = @ \o <<created, params>>]
            ELSE /\ native' = called
                 /\ enc' = [enc EXCEPT !.mux = m, !.returned = @ \o <<created, params>>]
                 /\ pc' = "anim_mux_assemble"
                 /\ UNCHANGED result
    /\ UNCHANGED <<query, url, cfg, overflow_checks, getCount, resp, ext, media, steps, dec,
                   sched>>

\* the native WebPMuxAssemble(mux, assembled_data): assembled_data is zeroed
\* on entry without being freed, and points to a fresh buffer on success
WebPMuxAssemble(log, ok) ==
    LET b == IF ok THEN NewHandle(log) ELSE 0
    IN  [log |-> Append(log, Call("WebPMuxAssemble", b)), data |-> b]

\* WebPMuxAssemble(mux.mux, &mut webp_data.webp_data)
AnimMuxAssemble ==
    /\ pc = "anim_mux_assemble"
    /\ \E ok \in BOOLEAN :
        LET r == WebPMuxAssemble(native, ok)
            e == IF ok THEN "WEBP_MUX_OK" ELSE "WEBP_MUX_MEMORY_ERROR"
        IN  IF check_mux_error(e) # "none"
            THEN /\ native' = DropAnim(DropData(DropMux(r.log, enc.mux), r.data), enc.anim)
                 /\ Fail(check_mux_error(e))
                 /\ enc' = [enc EXCEPT
                        !.data = r.data,
                        !.returned = Append(@, MuxRet("WebPMuxAssemble", e))]
            ELSE /\ native' = r.log
                 /\ enc' = [enc EXCEPT
                        !.data = r.data,
                        !.returned = Append(@, MuxRet("WebPMuxAssemble", e))]
                 /\ pc' = "anim_copy"
                 /\ UNCHANGED result
    /\ UNCHANGED <<query, url, cfg, overflow_checks, getCount, resp, ext, media, steps, dec,
                   sched>>

\* the bytes are copied out; mux, webp_data and self drop
AnimCopy ==
    /\ pc = "anim_copy"
    /\ native' = DropAnim(DropData(DropMux(Append(native, Call("copy", enc.data)),
                                           enc.mux), enc.data), enc.anim)
    /\ result' = Success("image/webp", "webp")
    /\ pc' = "done"
    /\ UNCHANGED <<query, url, cfg, overflow_checks, getCount, resp, ext, media, steps, dec,
                   enc, sched>>

(***************************************************************************)
(* The specification of one request.                                       *)
(***************************************************************************)
Next ==
    \/ ParseQuery
    \/ CheckAddress
    \/ SendCompletes
    \/ BodyCompletes
    \/ Cancel
    \/ Classify
    \/ DecodeStill
    \/ DecodeGif
    \/ DecodeSvg
    \/ DecodeWebp
    \/ DecodeUnknown
    \/ AnimDecNew
    \/ AnimDecInfo
    \/ AnimDecNext
    \/ AnimDecFinish
    \/ StaticFirst
    \/ StaticCap
    \/ Preset
    \/ RespondPng
    \/ RespondWebp
    \/ ImgFromRgba
    \/ ImgEncode
    \/ ImgCopy
    \/ AnimNew
    \/ AnimAdd
    \/ AnimAssemble
    \/ AnimMux
    \/ AnimMuxAssemble
    \/ AnimCopy

Spec == Init /\ [][Next]_vars

(***************************************************************************)
(* webp.rs: encode_webp_anim followed by decode_webp_anim on the bytes it   *)
(* returned.                                                               *)
(***************************************************************************)
\* encode_webp_anim is called with a sequence of at least one frame
RoundTripInit ==
    /\ pc = "anim_new"
    /\ query = NoQuery
    /\ url = [host |-> OrdinaryHost, path |-> <<"/">>]
    /\ cfg = [convert_type |-> "Original", is_static |-> FALSE]
    /\ overflow_checks = FALSE
    /\ getCount = 0
    /\ resp = NoResp
    /\ ext = "Webp"
    /\ media \in { m \in Movies : m.frames # <<>> }
    /\ result = Pending
    /\ steps = <<>>
    /\ native = <<>>
    /\ dec = NoDec
    /\ enc = [NoEnc EXCEPT !.path = "anim"]
    /\ sched = NoSched

\* the bytes encode_webp_anim returned are handed to decode_webp_anim
RoundTripFeed ==
    /\ pc = "done"
    /\ result.kind = "ok"
    /\ resp = NoResp
    /\ resp' = [status |-> 200, sniff |-> "WebP", anim |-> enc.file]
    /\ pc' = "dec_new"
    /\ result' = Pending
    /\ UNCHANGED <<query, url, cfg, overflow_checks, getCount, ext, media, steps, native,
                   dec, enc, sched>>

RoundTripNext ==
    \/ AnimNew
    \/ AnimAdd
    \/ AnimAssemble
    \/ AnimMux
    \/ AnimMuxAssemble
    \/ AnimCopy
    \/ RoundTripFeed
    \/ AnimDecNew
    \/ AnimDecInfo
    \/ AnimDecNext
    \/ AnimDecFinish

SpecRoundTrip == RoundTripInit /\ [][RoundTripNext]_vars

(***************************************************************************)
(* webp.rs: the time stamps of anim_encoder_add over the whole range of    *)
(* the frame type.  A u32 is a pair <<hi, lo>> of 16-bit limbs here, the   *)
(* delay of a frame is [num |-> <<hi, lo>>, den |-> d], and a time stamp   *)
(* handed to WebPAnimEncoderAdd is the bit pattern of the i32.             *)
(***************************************************************************)
\* duration.0 / duration.1 on u32, for a denominator of at most 2^15
DivU32(a, d) ==
    LET r == a[1] % d
    IN  <<a[1] \div d, (r * Limb + a[2]) \div d>>

\* a + b on u32: the sum modulo 2^32 and whether it overflowed
AddU32(a, b) ==
    LET lo == a[2] + b[2]
        hi == a[1] + b[1] + (lo \div Limb)
    IN  [sum |-> <<hi % Limb, lo % Limb>>, overflows |-> hi >= Limb]

\* `*time_stamp as i32`: the cast keeps the bits, so the value is negative
\* when the top bit is set
IsNegativeI32(a) == a[1] >= Limb \div 2

\* a <= b for two i32 given by their bits
LeqI32(a, b) ==
    IF IsNegativeI32(a) # IsNegativeI32(b) THEN IsNegativeI32(a)
    ELSE a[1] < b[1] \/ (a[1] = b[1] /\ a[2] <= b[2])

\* delays of the frame type: small ones and the ends of the u32 range
FullRangeDelays ==
    { [num |-> <<0, 20>>, den |-> 1],
      [num |-> <<0, 100>>, den |-> 3],
      [num |-> <<32767, 65535>>, den |-> 1],
      [num |-> <<32768, 0>>, den |-> 1],
      [num |-> <<65535, 65535>>, den |-> 1],
      [num |-> <<65535, 65535>>, den |-> 2] }

FullRangeMovies ==
    UNION { { Movie([i \in 1..n |-> Frame(Buffer(200, 100, i), dl[i])]) :
                dl \in [1..n -> FullRangeDelays] } : n \in 1..MaxFrames }

\* ManagedWebpAnim::encode is entered: let mut time_stamp_ms = 0
TimeStampInit ==
    /\ pc = "ts_add"
    /\ query = NoQuery
    /\ url = [host |-> OrdinaryHost, path |-> <<"/">>]
    /\ cfg = [convert_type |-> "Original", is_static |-> FALSE]
    /\ overflow_checks \in BOOLEAN
    /\ getCount = 0
    /\ resp = NoResp
    /\ ext = "Gif"
    /\ media \in FullRangeMovies
    /\ result = Pending
    /\ steps = <<>>
    /\ native = <<>>
    /\ dec = NoDec
    /\ enc = [NoEnc EXCEPT !.path = "anim", !.i = 1, !.time_stamp_ms = <<0, 0>>]
    /\ sched = NoSched

\* anim_encoder_add: *time_stamp += duration.0 / duration.1 on u32, which
\* panics on overflow in a build with overflow checks and wraps in one
\* without; then *time_stamp as i32 is handed to WebPAnimEncoderAdd
TimeStampAdd ==
    /\ pc = "ts_add"
    /\ enc.i <= Len(media.frames)
    /\ LET duration == media.frames[enc.i].delay
           added == AddU32(enc.time_stamp_ms, DivU32(duration.num, duration.den))
       IN  IF added.overflows /\ overflow_checks
           THEN /\ Fail(PanicMsg)
                /\ UNCHANGED enc
           ELSE /\ enc' = [enc EXCEPT
                       !.i = @ + 1,
                       !.time_stamp_ms = added.sum,
                       !.submitted = Append(@, [frame |-> enc.i,
                                                timestamp |-> added.sum,
                                                wrapped |-> added.overflows])]
                /\ UNCHANGED <<pc, result>>
    /\ UNCHANGED <<query, url, cfg, overflow_checks, getCount, resp, ext, media, steps,
                   native, dec, sched>>

\* the loop over self.frames has ended
TimeStampEnd ==
    /\ pc = "ts_add"
    /\ enc.i > Len(media.frames)
    /\ pc' = "done"
    /\ UNCHANGED <<query, url, cfg, overflow_checks, getCount, resp, ext, media, result,
                   steps, native, dec, enc, sched>>

TimeStampNext ==
    \/ TimeStampAdd
    \/ TimeStampEnd

SpecTimeStamp == TimeStampInit /\ [][TimeStampNext]_vars

(***************************************************************************)
(* main.rs: the scheduler.  #[tokio::main] runs every request task on the  *)
(* worker threads that also drive network I/O.  A task is polled on a      *)
(* worker between its suspension points (send().await, bytes().await);     *)
(* the last poll of proxy_handler runs classify, decode, the transforms    *)
(* and the encoder as plain calls, so it holds its worker until they       *)
(* return.  No call is handed to spawn_blocking.                           *)
(***************************************************************************)
\* the worker threads of the runtime
Workers == 2

Tasks == 1..MaxRequests

WorkersHeld == Cardinality({ r \in Tasks : sched.task[r].state = "codec"
                                            /\ sched.task[r].thread = "worker" })
FreeWorker == WorkersHeld < Workers

SetTask(r, state, thread) ==
    sched' = [sched EXCEPT !.task[r] = [state |-> state, thread |-> thread]]

ReqIdle ==
    UNCHANGED <<pc, query, url, cfg, overflow_checks, getCount, resp, ext, media,
                result, steps, native, dec, enc>>

SchedInit ==
    /\ ReqInit
    /\ query = NoQuery
    /\ overflow_checks = FALSE
    /\ sched = [task |-> [r \in Tasks |-> [state |-> "new", thread |-> "none"]]]

\* first poll: try_into, the address check, send() issued
SchedPollStart(r) ==
    /\ sched.task[r].state = "new"
    /\ FreeWorker
    /\ SetTask(r, "await_send", "none")
    /\ ReqIdle

\* the response head arrives (or the send fails and the task ends)
SchedSendDone(r) ==
    /\ sched.task[r].state = "await_send"
    /\ \E ok \in BOOLEAN : SetTask(r, IF ok THEN "send_ready" ELSE "done", "none")
    /\ ReqIdle

\* second poll: bytes() awaited
SchedPollBody(r) ==
    /\ sched.task[r].state = "send_ready"
    /\ FreeWorker
    /\ SetTask(r, "await_body", "none")
    /\ ReqIdle

\* the body arrives
SchedBodyDone(r) ==
    /\ sched.task[r].state = "await_body"
    /\ SetTask(r, "body_ready", "none")
    /\ ReqIdle

\* last poll: decode_webp_anim, resize and to_webp are called inline
SchedBeginCodec(r) ==
    /\ sched.task[r].state = "body_ready"
    /\ FreeWorker
    /\ SetTask(r, "codec", "worker")
    /\ ReqIdle

\* the codec calls return and the response is handed back
SchedEndCodec(r) ==
    /\ sched.task[r].state = "codec"
    /\ SetTask(r, "done", "none")
    /\ ReqIdle

\* the client goes away while the task is suspended
SchedCancel(r) ==
    /\ sched.task[r].state \in {"await_send", "await_body"}
    /\ SetTask(r, "done", "none")
    /\ ReqIdle

SchedNext ==
    \E r \in Tasks :
        \/ SchedPollStart(r)
        \/ SchedSendDone(r)
        \/ SchedPollBody(r)
        \/ SchedBodyDone(r)
        \/ SchedBeginCodec(r)
        \/ SchedEndCodec(r)
        \/ SchedCancel(r)

SpecSched == SchedInit /\ [][SchedNext]_vars

(***************************************************************************)
(* Properties.                                                             *)
(***************************************************************************)
PictureFns == {"WebPPictureInit"}
WriterFns == {"WebPMemoryWriterInit"}
AnimEncoderFns == {"WebPAnimEncoderNewInternal"}
DataFns == {"WebPAnimEncoderAssemble", "WebPMuxAssemble"}
MuxFns == {"WebPMuxCreateInternal"}
DecoderFns == {"WebPAnimDecoderNew"}

\* no handle acquired by fns has more than one teardown call
NeverTwice(fns) == \A h \in AcquiredBy(native, fns) : Teardowns(native, h) <= 1
\* every handle acquired by fns has exactly one teardown call
ExactlyOnce(fns) == \A h \in AcquiredBy(native, fns) : Teardowns(native, h) = 1

\* C1: when encode_webp_image has returned, with bytes or with an error from
\* any of its steps, every picture and memory writer it acquired has been
\* torn down exactly once, and none is ever torn down twice.
C1_ImageEncodeTeardown ==
    /\ NeverTwice(PictureFns \cup WriterFns)
    /\ (pc = "done" /\ enc.path = "image") => ExactlyOnce(PictureFns \cup WriterFns)

\* C2: when encode_webp_anim has returned, with bytes or with an error from
\* any stage, the animation encoder, every container-data buffer an assemble
\* call allocated and the mux have each been torn down exactly once.
C2_AnimEncodeTeardown ==
    /\ NeverTwice(AnimEncoderFns \cup DataFns \cup MuxFns)
    /\ (pc = "done" /\ enc.path = "anim")
          => ExactlyOnce(AnimEncoderFns \cup DataFns \cup MuxFns)

\* C3: a decoder that was opened is deleted exactly once by the time
\* decode_webp_anim has returned, on every exit path, never twice, and not
\* while it is still in use; when the open fails no delete call is issued.
C3_DecoderDeletedOnce ==
    /\ NeverTwice(DecoderFns)
    /\ pc \in {"dec_info", "dec_loop"} => Teardowns(native, dec.decoder) = 0
    /\ pc \notin {"dec_info", "dec_loop"} =>
          /\ ExactlyOnce(DecoderFns)
          /\ CallsOf(native, "WebPAnimDecoderDelete")
                = Cardinality(AcquiredBy(native, DecoderFns))

\* a frame pull failed after a frame had been pulled, and the decoder is gone
C3_Witness ==
    /\ pc = "done"
    /\ result.msg = "webp anim decode failed"
    /\ Len(dec.pulled) >= 1
    /\ Teardowns(native, dec.decoder) = 1

\* the host of the request is an IP literal or a domain that parses as one
IpHost(u) ==
    \/ u.host.kind \in {"Ipv4", "Ipv6"}
    \/ u.host.kind = "Domain" /\ ParsesAsIp(u.host.text)

\* C4: for a URL whose host is an IPv4 or IPv6 literal or a domain that
\* parses as an IP address no GET is ever issued and the request ends with
\* the address-rejected error; for an ordinary domain host the GET is issued
\* once the address check has run.
C4_IpHostRejected ==
    /\ (url # NoUrl /\ IpHost(url)) =>
          /\ getCount = 0
          /\ pc \in {"download", "done"}
          /\ pc = "done" => result = Failure("Cannot accept ipaddr")
    /\ (url # NoUrl /\ url.host.kind = "Domain" /\ ~ParsesAsIp(url.host.text)
          /\ pc # "download") => getCount = 1

\* a domain host that parses as an IP address has been rejected
C4_Witness ==
    /\ pc = "done"
    /\ url.host.kind = "Domain"
    /\ ParsesAsIp(url.host.text)
    /\ result = Failure("Cannot accept ipaddr")
    /\ getCount = 0

\* C5: after a response with a non-2xx status the body is never classified
\* or decoded and the request ends with a network error.
C5_NonSuccessIsNetworkError ==
    (resp.status # 0 /\ ~IsSuccess(resp.status)) =>
        /\ \A i \in 1..Len(steps) : steps[i] \notin {"Classify", "Decode"}
        /\ (pc = "done" /\ result.kind # "cancelled") => result = Failure("reqwest::Error")

\* the order of the steps of one request
StepOrder == <<"Fetch", "Classify", "Decode", "Static", "Preset", "Encode">>
\* s is an initial part of the step order, Static being left out when the
\* static flag is not set
InStepOrder(s) ==
    LET expected == IF cfg.is_static THEN StepOrder
                    ELSE SelectSeq(StepOrder, LAMBDA x : x # "Static")
    IN  /\ Len(s) <= Len(expected)
        /\ \A i \in 1..Len(s) : s[i] = expected[i]

\* C6: the steps of a request run in the order Fetch, Classify, Decode,
\* Static, Preset, Encode, each at most once; at most one GET is issued; a
\* request that failed has ended, returns no bytes, and bytes are returned
\* only after every step ran; nothing runs once the request has ended.
C6_FailFast ==
    /\ [](/\ InStepOrder(steps)
          /\ getCount <= 1
          /\ getCount = Cardinality({ i \in 1..Len(steps) : steps[i] = "Fetch" })
          /\ result.kind \in {"err", "panic", "cancelled"} =>
                (pc = "done" /\ result.body = "none")
          /\ result.kind = "ok" =>
                (/\ pc = "done"
                 /\ result.body # "none"
                 /\ steps = IF cfg.is_static THEN StepOrder
                            ELSE SelectSeq(StepOrder, LAMBDA x : x # "Static")))
    /\ [][pc # "done"]_vars

\* the static step failed and neither the preset nor the encoder ran
C6_Witness ==
    /\ pc = "done"
    /\ result.kind = "err"
    /\ steps = <<"Fetch", "Classify", "Decode", "Static">>
    /\ getCount = 1

\* C7: a task that is inside the codec calls runs them on a blocking worker
\* and not on a scheduler thread, so that a task that is ready to go on with
\* its fetch always finds a free scheduler thread.
C7_CodecOffloaded ==
    /\ \A r \in Tasks :
          sched.task[r].state = "codec" => sched.task[r].thread = "blocking"
    /\ (\E r \in Tasks : sched.task[r].state \in {"new", "send_ready"}) => FreeWorker

\* C8: no native handle is live while the request is suspended, and when the
\* request has been abandoned or has ended with an error every native handle
\* it acquired has been torn down exactly once.
C8_NothingLeaked ==
    /\ NeverTwice(AcquireFns)
    /\ pc \in {"await_send", "await_body"} => ExactlyOnce(AcquireFns)
    /\ (pc = "done" /\ result.kind \in {"cancelled", "err", "panic"})
          => ExactlyOnce(AcquireFns)

\* the exact quotient and remainder of a * b / c, for a * b / c < 2^31
ExactMulDiv(a, b, c) ==
    LET p == MulLimbs(a, b)
        r == p[1] % c
    IN  [quot |-> (p[1] \div c) * Limb + ((r * Limb + p[2]) \div c),
         rem |-> (r * Limb + p[2]) % c]

\* n differs from the rational a * b / c by less than one
WithinOnePixel(n, a, b, c) ==
    LET e == ExactMulDiv(a, b, c)
    IN  n = e.quot \/ (e.rem # 0 /\ n = e.quot + 1)

\* the buffers of a raster image or of a frame sequence
Buffers(m) ==
    IF m.tag = "Image" THEN {m.img}
    ELSE { m.frames[i].buf : i \in 1..Len(m.frames) }

\* `after` is what the claim says resize_by_height(cap) returns on `before`
HeightCapped(before, after, cap) ==
    LET h == height(before).n
        w == width(before).n
    IN  IF h <= cap THEN after = before
        ELSE /\ after # before
             /\ after.tag = before.tag
             /\ Len(after.frames) = Len(before.frames)
             /\ \A b \in Buffers(after) : b.h = cap /\ WithinOnePixel(b.w, w, cap, h)

\* the cap a step applies with resize_by_height, 0 when it applies none
CapOfStep ==
    IF pc = "static_cap" THEN STATIC_HEIGHT
    ELSE IF pc = "preset" /\ cfg.convert_type = "Emoji" THEN EMOJI_HEIGHT
    ELSE IF pc = "preset" /\ cfg.convert_type = "Avatar" THEN AVATER_HEIGHT
    ELSE 0

\* C9: every application of resize_by_height(cap) to a raster image or a
\* non-empty frame sequence returns, and returns its input unchanged iff the
\* input height is <= cap, otherwise media of height exactly cap whose width
\* is within one pixel of input_width * cap / input_height.
C9_ResizeByHeight ==
    [][(CapOfStep # 0 /\ Buffers(media) # {})
          => (result'.kind = "pending" /\ HeightCapped(media, media', CapOfStep))]_vars

\* C10: first() turns a sequence of N >= 1 frames into the raster image of
\* frame 0 and returns a raster image or vector markup unchanged.
C10_FirstFrame ==
    [][(pc = "static" /\ cfg.is_static /\ (media.tag = "Movie" => media.frames # <<>>))
          => /\ pc' = "static_cap"
             /\ result' = Pending
             /\ media' = IF media.tag = "Movie" THEN Image(media.frames[1].buf)
                         ELSE media]_vars

\* frame 0 of a decoded GIF has been kept as the raster image
C10_Witness ==
    /\ pc = "static_cap"
    /\ media.tag = "Image"
    /\ media.img.px.src = 1
    /\ ext = "Gif"

\* C11: whenever the preset step returns media for a raster image or a frame
\* sequence, every buffer of it is at most 128 high for Emoji, at most 320
\* high for Avatar, exactly 200x200 for Preview, exactly 96x96 for Badge, and
\* for Original the media is the one that went in.
C11_PresetDimensions ==
    [][(pc = "preset" /\ media.tag \in {"Image", "Movie"} /\ pc' = "respond")
          => /\ cfg.convert_type = "Emoji" => \A b \in Buffers(media') : b.h <= 128
             /\ cfg.convert_type = "Avatar" => \A b \in Buffers(media') : b.h <= 320
             /\ cfg.convert_type = "Preview"
                   => \A b \in Buffers(media') : b.w = 200 /\ b.h = 200
             /\ cfg.convert_type = "Badge"
                   => \A b \in Buffers(media') : b.w = 96 /\ b.h = 96
             /\ cfg.convert_type = "Original" => media' = media
             /\ Buffers(media') = {} <=> Buffers(media) = {}]_vars

\* a two-frame sequence too high for Emoji has left the preset step with both
\* frames 128 high
C11_Witness ==
    /\ pc = "respond"
    /\ cfg.convert_type = "Emoji"
    /\ ~cfg.is_static
    /\ media.tag = "Movie"
    /\ Len(media.frames) = 2
    /\ \A i \in 1..2 : media.frames[i].buf.h = 128 /\ media.frames[i].buf.px.resampled

\* the request has reached the response arm or the encoder
AtEncoder == pc = "respond" \/ \E i \in 1..Len(steps) : steps[i] = "Encode"

\* C12: with the static flag set, for every preset, the static step (first
\* frame, then the cap of 422) has run before the preset step, and the media
\* handed to the encoder is not a frame sequence, the animated encoder is not
\* entered, and the media is at most 422 high.
C12_StaticBeforePreset ==
    cfg.is_static =>
        /\ \A i \in 1..Len(steps) :
              steps[i] = "Preset" => \E j \in 1..(i - 1) : steps[j] = "Static"
        /\ pc = "preset" => \E j \in 1..Len(steps) : steps[j] = "Static"
        /\ AtEncoder =>
              /\ media.tag # "Movie"
              /\ media.frames = <<>>
              /\ enc.path # "anim"
              /\ height(media).ok /\ height(media).n <= 422

\* the first frame of a GIF 1000 high is being encoded as a still image 422
\* high, the preset being Original
C12_Witness ==
    /\ pc = "img_encode"
    /\ cfg.is_static
    /\ cfg.convert_type = "Original"
    /\ ext = "Gif"
    /\ media.tag = "Image"
    /\ media.img.h = 422
    /\ media.img.px.src = 1

\* the presets in the order of their priority, and the flag of each
PresetPriority == <<"Emoji", "Avatar", "Preview", "Badge">>
FlagOf(q, preset) ==
    IF preset = "Emoji" THEN q.emoji
    ELSE IF preset = "Avatar" THEN q.avatar
    ELSE IF preset = "Preview" THEN q.preview
    ELSE q.badge

\* the preset whose flag is present and that no present flag precedes
HighestPresent(q) ==
    LET present == { i \in 1..Len(PresetPriority) : FlagOf(q, PresetPriority[i]) }
    IN  IF present = {} THEN "Original"
        ELSE PresetPriority[CHOOSE i \in present : \A j \in present : i <= j]

\* C13: for every combination of the emoji, avatar, preview and badge flags
\* of a query whose URL parses, the preset of the configuration is the
\* present flag of highest priority in the order emoji, avatar, preview,
\* badge, and Original when none is present; the static flag is carried over
\* and the preset is the same with the static flag toggled.
C13_PresetResolution ==
    [][(pc = "handler" /\ query.url # NoUrl)
          => /\ pc' = "download"
             /\ cfg'.convert_type = HighestPresent(query)
             /\ cfg'.is_static = query.static
             /\ ConvertTypeOf([query EXCEPT !.static = ~@]) = cfg'.convert_type]_vars

\* a query has been resolved to Preview with the static flag set
C13_Witness ==
    /\ pc = "download"
    /\ query = NoQuery
    /\ cfg = [convert_type |-> "Preview", is_static |-> TRUE]

\* the native calls of the WebP encoders
EncoderCallFns ==
    {"WebPPictureInit", "WebPPictureImportRGBA", "WebPMemoryWriterInit", "WebPEncode",
     "WebPAnimEncoderNewInternal", "WebPAnimEncoderAdd", "WebPAnimEncoderAssemble",
     "WebPMuxCreateInternal", "WebPMuxAssemble"}

\* C14: a successful response carries WebP bytes tagged image/webp for every
\* preset but Badge; for Badge it carries PNG bytes tagged image/png, and no
\* call of the WebP encoder is ever made for a Badge request.
C14_ContentKind ==
    /\ result.kind = "ok" =>
          IF cfg.convert_type = "Badge"
          THEN result.content_type = "image/png" /\ result.body = "png"
          ELSE /\ result.content_type = "image/webp"
               /\ result.body = "webp"
               /\ enc.path \in {"image", "anim"}
               /\ \E i \in 1..Len(native) : native[i].fn = "copy"
    /\ cfg.convert_type = "Badge" =>
          /\ enc.path = "none"
          /\ \A i \in 1..Len(native) : native[i].fn \notin EncoderCallFns

\* an animated WebP body has been answered as a PNG badge: the native decoder
\* ran and the encoder did not
C14_Witness ==
    /\ result.kind = "ok"
    /\ cfg.convert_type = "Badge"
    /\ result.content_type = "image/png"
    /\ ext = "Webp"
    /\ media.tag = "Movie"
    /\ CallsOf(native, "WebPAnimDecoderDelete") = 1

\* the text after the last '.' of a path; there is none without a '.'
HasDot(p) == \E i \in 1..Len(p) : p[i] = "."
AfterLastDot(p) ==
    LET last == CHOOSE i \in 1..Len(p) :
                    p[i] = "." /\ \A j \in (i + 1)..Len(p) : p[j] # "."
    IN  SubSeq(p, last + 1, Len(p))

\* the kind the suffix table gives a path
KindOfSuffix(p) ==
    IF ~HasDot(p) THEN "Unknown"
    ELSE LET e == AfterLastDot(p)
         IN  CASE e = <<"p", "n", "g">> -> "Png"
               [] e \in {<<"j", "p", "g">>, <<"j", "p", "e", "g">>, <<"j", "f", "i", "f">>, <<"p", "j", "p", "e", "g">>, <<"p", "j", "p">>}
                    -> "Jpeg"
               [] e = <<"g", "i", "f">> -> "Gif"
               [] e = <<"s", "v", "g">> -> "Svg"
               [] e = <<"w", "e", "b", "p">> -> "Webp"
               [] OTHER -> "Unknown"

\* suffixes the claim lists as unknown
UnknownSuffixes ==
    {<<"i", "c", "o">>,
     <<"b", "m", "p">>,
     <<"t", "i", "f", "f">>,
     <<"a", "v", "i", "f">>,
     <<"a", "p", "n", "g">>,
     <<"h", "t", "m", "l">>}

\* C15: get_image_ext gives every URL the kind of the text after the last
\* '.' of its path: png is Png; jpg, jpeg, jfif, pjpeg, pjp are Jpeg; gif is
\* Gif; svg is Svg; webp is Webp; every other suffix (ico, bmp, tiff, avif,
\* apng, html among them), a path without '.', and the empty path are
\* Unknown; it always returns one of the kinds, and a kind other than Unknown
\* is the one the body is decoded as.
C15_ClassifyBySuffix ==
    /\ get_image_ext(url) = KindOfSuffix(url.path)
    /\ get_image_ext(url) \in {"Png", "Jpeg", "Gif", "Svg", "Webp", "Ico", "Unknown"}
    /\ (HasDot(url.path) /\ AfterLastDot(url.path) \in UnknownSuffixes)
          => get_image_ext(url) = "Unknown"
    /\ url.path = <<"/">> => get_image_ext(url) = "Unknown"
    /\ (pc = "decode" /\ KindOfSuffix(url.path) # "Unknown")
          => ext = KindOfSuffix(url.path)

\* a path with two dots has been classified by its last suffix, the body
\* carrying another signature
C15_Witness ==
    /\ pc = "decode"
    /\ url.path = <<"/", "a", ".", "t", "a", "r", ".", "g", "i", "f">>
    /\ resp.sniff = "Png"
    /\ ext = "Gif"

\* the kinds the sniffer's formats map to
SniffedKinds == {<<"Png", "Png">>, <<"Jpeg", "Jpeg">>, <<"Gif", "Gif">>,
                 <<"WebP", "Webp">>, <<"Ico", "Ico">>}
HasSniffedKind(sniffed) == \E k \in SniffedKinds : k[1] = sniffed
SniffedKind(sniffed) == (CHOOSE k \in SniffedKinds : k[1] = sniffed)[2]

\* the formats the sniffer recognises and the code lists without a decoder
ListedWithoutDecoder ==
    {"Pnm", "Tiff", "Tga", "Dds", "Bmp", "Hdr", "OpenExr", "Farbfeld", "Avif", "Qoi"}

\* C16 as stated: once a URL without a known suffix has been classified, the
\* kind is that of the PNG, JPEG, GIF, WEBP or ICO signature of the body, and
\* Svg for every other sniffed format and for sniff failure, never Unknown.
C16_FallbackNeverUnknown ==
    (pc = "decode" /\ KindOfSuffix(url.path) = "Unknown")
        => /\ ext = IF HasSniffedKind(resp.sniff) THEN SniffedKind(resp.sniff) ELSE "Svg"
           /\ ext # "Unknown"

\* C16 as amended: once a URL without a known suffix has been classified, the
\* kind is that of the PNG, JPEG, GIF, WEBP or ICO signature of the body;
\* Unknown for PNM, TIFF, TGA, DDS, BMP, HDR, OpenEXR, Farbfeld, AVIF and QOI
\* bodies; and Svg only when the sniffer fails or reports a format the code
\* does not list.  A known suffix is never overridden by the signature.
C16_FallbackAmended ==
    /\ (pc = "decode" /\ KindOfSuffix(url.path) = "Unknown")
          => ext = IF HasSniffedKind(resp.sniff) THEN SniffedKind(resp.sniff)
                   ELSE IF resp.sniff \in ListedWithoutDecoder THEN "Unknown"
                   ELSE "Svg"
    /\ (pc = "decode" /\ KindOfSuffix(url.path) # "Unknown")
          => ext = KindOfSuffix(url.path)

\* a BMP body behind a .bmp URL has been classified Unknown
C16_Witness ==
    /\ pc = "decode"
    /\ url.path = <<"/", "i", ".", "b", "m", "p">>
    /\ resp.sniff = "Bmp"
    /\ ext = "Unknown"

\* a decoded delay is the wanted one up to rounding to whole milliseconds
WithinRounding(got, want) ==
    /\ got.num * want.den > want.num * got.den - want.den * got.den
    /\ got.num * want.den < want.num * got.den + want.den * got.den

\* C17: when decode_webp_anim returns the frames of the bytes that
\* encode_webp_anim made of N >= 1 frames with delays d_0..d_{N-1}, there are
\* exactly N of them and frame i has the delay d_i up to rounding to whole
\* milliseconds.
C17_AnimRoundTrip ==
    [][(pc = "dec_loop" /\ dec.remaining = 0 /\ pc' = "static")
          => /\ Len(media'.frames) = Len(media.frames)
             /\ \A i \in 1..Len(media.frames) :
                    /\ i <= Len(media'.frames)
                    /\ WithinRounding(media'.frames[i].delay, media.frames[i].delay)]_vars

\* a * b / c rounded to the nearest whole number, halves upwards
RoundedMulDiv(a, b, c) ==
    LET e == ExactMulDiv(a, b, c)
    IN  IF 2 * e.rem >= c THEN e.quot + 1 ELSE e.quot

\* C18: every application of resize_by_height(cap) to a raster image or a
\* non-empty frame sequence higher than cap returns media whose buffers are
\* cap high and round(input_width * cap / input_height) wide, rounded to the
\* nearest and not truncated.
C18_RoundedWidth ==
    [][(CapOfStep # 0 /\ Buffers(media) # {} /\ height(media).n > CapOfStep)
          => /\ result'.kind = "pending"
             /\ \A b \in Buffers(media') :
                    /\ b.h = CapOfStep
                    /\ b.w = RoundedMulDiv(width(media).n, CapOfStep, height(media).n)]_vars

\* the height and the width the step at hand passes to resize for a frame
\* sequence, <<0, 0>> when it does not call resize
ResizeTarget ==
    IF pc # "preset" \/ media.tag # "Movie" \/ media.frames = <<>> THEN <<0, 0>>
    ELSE IF cfg.convert_type = "Preview" THEN <<200, 200>>
    ELSE IF cfg.convert_type = "Badge" THEN <<96, 96>>
    ELSE IF CapOfStep # 0 /\ height(media).n > CapOfStep
    THEN <<CapOfStep, WrappingMulDivU32(width(media).n, CapOfStep, height(media).n)>>
    ELSE <<0, 0>>

\* C19: every step that resizes a frame sequence to height h and width w
\* returns a sequence of as many frames in the same order, each exactly w
\* wide and h high and resampled from the frame in its place, frame i having
\* the delay of frame i of the input.
C19_ResizeKeepsFrames ==
    [][(ResizeTarget # <<0, 0>> /\ pc' = "respond")
          => /\ media'.tag = "Movie"
             /\ Len(media'.frames) = Len(media.frames)
             /\ \A i \in 1..Len(media.frames) :
                    /\ media'.frames[i].buf.h = ResizeTarget[1]
                    /\ media'.frames[i].buf.w = ResizeTarget[2]
                    /\ media'.frames[i].buf.px.src = media.frames[i].buf.px.src
                    /\ media'.frames[i].buf.px.resampled
                    /\ media'.frames[i].delay = media.frames[i].delay]_vars

\* two frames with different delays have been resized to 200x200 for Preview
C19_Witness ==
    /\ pc = "respond"
    /\ cfg.convert_type = "Preview"
    /\ media.tag = "Movie"
    /\ Len(media.frames) = 2
    /\ media.frames[1].delay # media.frames[2].delay
    /\ media.frames[1].buf.px.src = 1 /\ media.frames[2].buf.px.src = 2
    /\ \A i \in 1..2 : media.frames[i].buf.w = 200 /\ media.frames[i].buf.h = 200
                          /\ media.frames[i].buf.px.resampled

\* whole milliseconds of a delay, the fraction cut off
TruncatedMs(delay) == delay.num \div delay.den

\* C20: the calls of WebPAnimEncoderAdd are made for the frames in their
\* order, one call per frame; the call for frame k carries the timestamp of
\* the call for frame k-1 (0 before the first) plus frame k's delay in whole
\* milliseconds, the fraction cut off; no call follows one that failed, and
\* the bytes are assembled only after a call for every frame.
C20_SubmittedInOrder ==
    LET sub == enc.submitted
    IN  /\ Len(sub) <= Len(media.frames)
        /\ CallsOf(native, "WebPAnimEncoderAdd") = Len(sub)
        /\ \A k \in 1..Len(sub) :
              /\ sub[k].frame = k
              /\ sub[k].src = media.frames[k].buf.px.src
              /\ sub[k].timestamp = (IF k = 1 THEN 0 ELSE sub[k - 1].timestamp)
                                        + TruncatedMs(media.frames[k].delay)
              /\ k < Len(sub) => sub[k].status = 1
              /\ sub[k].status = 0 => pc = "done" /\ result.kind = "err"
        /\ pc \in {"anim_mux", "anim_mux_assemble", "anim_copy"}
              => Len(sub) = Len(media.frames)
        /\ (enc.path = "anim" /\ result.kind = "ok") => Len(sub) = Len(media.frames)

\* the add of the second frame failed after the first, whose delay of 50/3
\* ms was cut to 16, had been accepted
C20_Witness ==
    /\ pc = "done"
    /\ Len(enc.submitted) = 2
    /\ Len(media.frames) = 2
    /\ media.frames[1].delay = [num |-> 50, den |-> 3]
    /\ enc.submitted[1].timestamp = 16
    /\ enc.submitted[2].status = 0
    /\ enc.submitted[2].timestamp = 16 + TruncatedMs(media.frames[2].delay)


(***************************************************************************)
(* Animated decode differencing.                                           *)
(***************************************************************************)
RECURSIVE SumOfDelays(_, _)
\* the sum of the delays of the first k frames, in milliseconds
SumOfDelays(frames, k) ==
    IF k = 0 THEN 0
    ELSE SumOfDelays(frames, k - 1) + (frames[k].delay.num \div frames[k].delay.den)

\* the decode loop has ended and the decoded sequence has not been transformed
JustDecoded == pc = "static" /\ dec.opened /\ media.tag = "Movie"

\* C21: the animated decode yields one frame per pulled frame, in pull order;
\* frame 0 lasts t_0 and frame i lasts t_i - t_(i-1), so the first k+1
\* durations sum to t_k
C21_DecodeDifferencing ==
    JustDecoded =>
        /\ Len(media.frames) = Len(resp.anim.durations)
        /\ Len(media.frames) = Len(dec.pulled)
        /\ \A i \in 1..Len(dec.pulled) :
            LET t == dec.pulled[i].timestamp
                before == IF i = 1 THEN 0 ELSE dec.pulled[i - 1].timestamp
            IN  /\ before <= t
                /\ media.frames[i].buf = dec.pulled[i].buf
                /\ media.frames[i].buf.px.src = i
                /\ media.frames[i].delay = [num |-> t - before, den |-> 1]
                /\ SumOfDelays(media.frames, i) = t

\* two frames with different durations were decoded
C21_Witness ==
    /\ JustDecoded
    /\ Len(dec.pulled) = 2
    /\ dec.pulled[1].timestamp = 20
    /\ dec.pulled[2].timestamp = 120
    /\ media.frames[2].delay = [num |-> 100, den |-> 1]


(***************************************************************************)
(* The frame-sequence invariant.                                           *)
(***************************************************************************)
\* the transform step has returned its media to the response arm, or the
\* animated encoder has been entered with it
LeftTransform == pc \in {"respond", "anim_new"}

\* C22: every frame sequence that leaves the transform step and reaches the
\* encoder has at least one frame, and all its frames have the same width and
\* height, for every preset and either value of the static flag
C22_FrameSequenceInvariant ==
    (LeftTransform /\ media.tag = "Movie") =>
        /\ Len(media.frames) >= 1
        /\ \A i, j \in 1..Len(media.frames) :
            /\ media.frames[i].buf.w = media.frames[j].buf.w
            /\ media.frames[i].buf.h = media.frames[j].buf.h


(***************************************************************************)
(* Empty frame sequences.                                                  *)
(***************************************************************************)
EmptyMovie == media.tag = "Movie" /\ media.frames = <<>>

EncoderLevelFns == {"WebPAnimEncoderAdd", "WebPAnimEncoderAssemble"}
MuxLevelFns == {"WebPMuxSetAnimationParams", "WebPMuxAssemble"}

\* the native calls of the encode that reported failure, by position
FailedCalls == { i \in 1..Len(enc.returned) : ~enc.returned[i].ok }
ReturnsOf(fn) == { i \in 1..Len(enc.returned) : enc.returned[i].fn = fn }

\* C24: in the animated encode a failure status of an encoder-level call
\* (add-frame, assemble) or of a mux-level call (set-animation-params, mux
\* assemble) ends encode_webp_anim with an error, nothing being called after
\* it, and bytes are returned only when every native call of the path
\* reported success
C24_BothStatusSpacesChecked ==
    enc.path = "anim" =>
        /\ \A i \in FailedCalls :
            enc.returned[i].fn \in EncoderLevelFns \cup MuxLevelFns =>
                /\ i = Len(enc.returned)
                /\ pc = "done"
                /\ result.kind = "err"
                /\ result.body = "none"
        /\ result.kind = "ok" =>
                /\ FailedCalls = {}
                /\ Cardinality(ReturnsOf("WebPAnimEncoderAdd")) = Len(media.frames)
                /\ \A fn \in {"WebPAnimEncoderAssemble", "WebPMuxSetAnimationParams",
                               "WebPMuxAssemble"} :
                    Cardinality(ReturnsOf(fn)) = 1

\* every encoder-level call succeeded and the mux rejected the animation
\* parameters
C24_Witness ==
    /\ enc.path = "anim"
    /\ pc = "done"
    /\ result = Failure("mux err")
    /\ enc.mux = 0
    /\ enc.data # 0
    /\ Len(enc.returned) > 0
    /\ enc.returned[Len(enc.returned)] =
            Ret("WebPMuxSetAnimationParams", FALSE, "WEBP_MUX_MEMORY_ERROR")
    /\ FailedCalls = {Len(enc.returned)}


(***************************************************************************)
(* What a codec error says about its cause.                                *)
(***************************************************************************)
\* the code an error message of the encode paths carries: the three messages
\* that format a number print the status that was returned, which is 0
CodeCarried(msg) ==
    IF msg \in {"WebpEncode error code: 0", "Webp Anim encode faild: 0",
                "Webp Anim Assemble failed: 0"}
    THEN "0"
    ELSE "none"

\* C25: every codec error returned by an encode path carries the native
\* status/error code of the call that failed, so failures with different
\* native codes give different error values
C25_ErrorCarriesNativeCode ==
    (pc = "done" /\ enc.path # "none" /\ FailedCalls # {}) =>
        LET failed == enc.returned[Len(enc.returned)]
        IN  (~failed.ok /\ failed.code # "none") =>
                /\ result.kind = "err"
                /\ CodeCarried(result.msg) = failed.code


(***************************************************************************)
(* Use of native handles and buffers against their teardown.               *)
(***************************************************************************)
\* the positions of the log at which handle h is torn down, and those at
\* which it is passed to a call or read
TornDownAt(h) == { j \in 1..Len(native) : native[j].fn \in TeardownFns /\ native[j].h = h }
UsedAt(h) == { i \in 1..Len(native) : native[i].h = h }
At(fn) == { i \in 1..Len(native) : native[i].fn = fn }

\* no call and no read of a handle follows a teardown of it
NoUseAfterTeardown ==
    \A h \in Acquired(native) : \A j \in TornDownAt(h) : \A i \in UsedAt(h) : i <= j

\* bytes are copied out of a writer or container-data buffer before it is cleared
CopiedBeforeClear ==
    \A i \in At("copy") : \A j \in TornDownAt(native[i].h) : i < j

\* between two pulls from the decoder the frame of the first is copied
CopiedBeforeNextPull ==
    \A i, j \in At("WebPAnimDecoderGetNext") :
        i < j => \E k \in At("copy") : i < k /\ k < j /\ native[k].h = native[i].h

\* a per-frame picture is freed after the add-frame call it was passed to
FreedAfterAdd ==
    \A i \in At("WebPAnimEncoderAdd") :
        native[i].h # 0 =>
            /\ \A j \in TornDownAt(native[i].h) : i < j
            /\ pc = "done" => TornDownAt(native[i].h) # {}

\* the decoder is deleted before the bytes it borrows are released
DeletedBeforeRelease ==
    \A i \in At("drop(buf)") :
        \A h \in AcquiredBy(native, DecoderFns) :
            /\ \A u \in UsedAt(h) : u < i
            /\ \E j \in At("WebPAnimDecoderDelete") : native[j].h = h /\ j < i

\* the handles a wrapper was built around: a picture is wrapped only when
\* from_rgba returns Ok, and is then passed to WebPEncode or WebPAnimEncoderAdd
Wrapped ==
    AcquiredBy(native, AcquireFns \ PictureFns)
        \cup ({ native[i].h : i \in At("WebPEncode") \cup At("WebPAnimEncoderAdd") } \ {0})

\* when the request has ended every wrapper has dropped: a wrapped handle
\* that has no teardown has outlived its wrapper
NoneOutlivesWrapper ==
    pc = "done" => \A h \in Wrapped : TornDownAt(h) # {}

\* C26: no native handle or native-owned buffer is used after its teardown
\* and none outlives its wrapper: encoded bytes are copied before their
\* buffer is cleared, a decoded frame is copied before the next pull, a
\* per-frame picture is freed after its add-frame call, and the decoder is
\* deleted before the input bytes are released
C26_NoUseAfterTeardown ==
    /\ NoUseAfterTeardown
    /\ NoneOutlivesWrapper
    /\ CopiedBeforeClear
    /\ CopiedBeforeNextPull
    /\ FreedAfterAdd
    /\ DeletedBeforeRelease


(***************************************************************************)
(* The time stamps handed to the animation encoder.                        *)
(***************************************************************************)
\* C27: for every frame sequence and all delays of the frame type, the time
\* stamps handed to the animation encoder are non-negative and do not
\* decrease in frame order: the u32 running sum never wraps (nor panics) and
\* its cast to i32 is never negative
C27_TimeStampsMonotone ==
    /\ result.kind # "panic"
    /\ \A k \in 1..Len(enc.submitted) :
        /\ ~enc.submitted[k].wrapped
        /\ ~IsNegativeI32(enc.submitted[k].timestamp)
        /\ k > 1 => LeqI32(enc.submitted[k - 1].timestamp, enc.submitted[k].timestamp)

====
